---- MODULE Spec2Model ----
(***************************************************************************)
(* Model of garmin-scripts/setup_garmin.py (and the get_token_dir copy of  *)
(* garmin-scripts/garmin_upload.py): ${VAR} resolution, token directory    *)
(* resolution, extraction of the Garmin credential records from            *)
(* config.yaml, and the legacy / config-driven authentication runs.        *)
(*                                                                         *)
(* A Python str is the sequence of its characters.  A run of characters    *)
(* holding none of  $ { } ~ /  and no white space is written as one        *)
(* symbol ("alice", ".garmin_tokens"); every special character is a symbol *)
(* of its own.  A Python value is a tagged record: a str, an int or None.  *)
(***************************************************************************)
EXTENDS Integers, Sequences, FiniteSets, TLC

VARIABLES
    pc,              \* position of the running script
    environ,         \* os.environ: variable name -> value (both str)
    fs,              \* file system: path -> "dir" | "file" (absent: no entry)
    cli_token_dir,   \* args.token_dir
    garmin_users,    \* run_from_config: the records being processed
    idx,             \* run_from_config: 1-based position of the for loop
    has_error,       \* run_from_config: has_error
    email,           \* stripped email of the attempt in progress
    password,        \* stripped password of the attempt in progress
    token_dir,       \* token directory of the attempt in progress
    result,          \* per record: "none" | "ok" | "fail"
    log,             \* what the run printed and which collaborator calls it made
    exit_code,       \* -1 while running, then the process exit status
    crashed,         \* the run ended by an uncaught exception (traceback)
    argv,            \* what the run was started with (kept for reference)
    er_in,           \* resolve_env_ref: argument
    er_out,          \* resolve_env_ref: return value
    er_warn,         \* resolve_env_ref: names warned about, in order
    td_arg,          \* get_token_dir: argument
    td_out,          \* get_token_dir: outcome
    ex_config,       \* get_garmin_users: argument
    ex_out           \* get_garmin_users: return value

vars == <<pc, environ, fs, cli_token_dir, garmin_users, idx, has_error, email,
          password, token_dir, result, log, exit_code, crashed, argv, er_in,
          er_out, er_warn, td_arg, td_out, ex_config, ex_out>>

batch_vars == <<cli_token_dir, garmin_users, idx, has_error, email, password,
                token_dir, result, log, exit_code, crashed, argv>>
er_vars == <<er_in, er_out, er_warn>>
td_vars == <<td_arg, td_out>>
ex_vars == <<ex_config, ex_out>>

----------------------------------------------------------------------------
(* Python values                                                           *)

PyStr(s) == [t |-> "str", s |-> s]
PyInt(n) == [t |-> "int", n |-> n]
PyNone == [t |-> "none"]

IsStr(v) == v.t = "str"

\* bool(v): the empty str, 0 and None are falsy
Truthy(v) ==
    CASE v.t = "str" -> v.s # <<>>
      [] v.t = "int" -> v.n # 0
      [] OTHER -> FALSE

\* a or b
PyOr(a, b) == IF Truthy(a) THEN a ELSE b

\* d.get(k, default) on a dict modelled as a function
Get(d, k, default) == IF k \in DOMAIN d THEN d[k] ELSE default

IsSpace(c) == c = " "

RECURSIVE LStrip(_)
LStrip(s) ==
    IF s # <<>> /\ IsSpace(Head(s)) THEN LStrip(Tail(s)) ELSE s

RECURSIVE RStrip(_)
RStrip(s) ==
    IF s # <<>> /\ IsSpace(s[Len(s)]) THEN RStrip(SubSeq(s, 1, Len(s) - 1)) ELSE s

\* str.strip()
Strip(s) == RStrip(LStrip(s))

----------------------------------------------------------------------------
(* resolve_env_ref                                                         *)

\* position of the first "}" of s at or after i, 0 when there is none
RECURSIVE FirstClose(_, _)
FirstClose(s, i) ==
    IF i > Len(s) THEN 0
    ELSE IF s[i] = "}" THEN i
    ELSE FirstClose(s, i + 1)

\* the end of the match of \$\{([^}]+)\} that starts at i, 0 when none does
MatchEnd(s, i) ==
    IF i + 1 <= Len(s) /\ s[i] = "$" /\ s[i + 1] = "{"
    THEN LET j == FirstClose(s, i + 2)
         IN  IF j > i + 2 THEN j ELSE 0
    ELSE 0

\* replacer(match): the value of the variable, or the match itself and a warning
replacerUnsetEmpty(env, var_name, whole) ==
    IF var_name \in DOMAIN env
    THEN [out |-> env[var_name], warn |-> <<>>]
    ELSE [out |-> <<>>, warn |-> <<var_name>>]

replacer(env, var_name, whole) ==
    IF var_name \in DOMAIN env
    THEN [out |-> env[var_name], warn |-> <<>>]
    ELSE [out |-> whole, warn |-> <<var_name>>]

\* re.sub(pattern, replacer, value): leftmost non-overlapping matches, the
\* replacement text is not scanned again
RECURSIVE ReSub(_, _, _)
ReSub(env, s, i) ==
    IF i > Len(s) THEN [out |-> <<>>, warn |-> <<>>]
    ELSE LET j == MatchEnd(s, i)
         IN  IF j = 0
             THEN LET r == ReSub(env, s, i + 1)
                  IN  [out |-> <<s[i]>> \o r.out, warn |-> r.warn]
             ELSE LET m == replacer(env, SubSeq(s, i + 2, j - 1), SubSeq(s, i, j))
                      r == ReSub(env, s, j + 1)
                  IN  [out |-> m.out \o r.out, warn |-> m.warn \o r.warn]

resolve_env_ref(env, value) ==
    IF ~IsStr(value) THEN value ELSE PyStr(ReSub(env, value.s, 1).out)

\* the warnings resolve_env_ref prints on stderr
resolve_env_ref_warnings(env, value) ==
    IF ~IsStr(value) THEN <<>> ELSE ReSub(env, value.s, 1).warn

----------------------------------------------------------------------------
(* get_token_dir                                                           *)

\* Path.home()
Home == <<"/", "home">>

NewDir == Home \o <<"/", ".garmin_tokens">>
OldDir == Home \o <<"/", ".garmin_renpho_tokens">>

\* Path(s): repeated separators collapse, a trailing separator is dropped
RECURSIVE Collapse(_)
Collapse(s) ==
    IF Len(s) < 2 THEN s
    ELSE IF s[1] = "/" /\ s[2] = "/" THEN Collapse(Tail(s))
    ELSE <<s[1]>> \o Collapse(Tail(s))

PurePath(s) ==
    LET c == Collapse(s)
    IN  IF Len(c) > 1 /\ c[Len(c)] = "/" THEN SubSeq(c, 1, Len(c) - 1) ELSE c

\* str(Path(s).expanduser()): a leading "~" component becomes the home directory
PathStr(s) ==
    LET p == PurePath(s)
    IN  IF p # <<>> /\ p[1] = "~" /\ (Len(p) = 1 \/ p[2] = "/")
        THEN Home \o Tail(p)
        ELSE p

is_dir(f, p) == p \in DOMAIN f /\ f[p] = "dir"

Returned(v) == [raised |-> FALSE, v |-> v]
Raised == [raised |-> TRUE]

\* os.environ.get(name, "")
EnvGet(env, name) == Get(env, name, <<>>)

get_token_dir_exists(env, f, arg) ==
    IF Truthy(arg)
    THEN IF IsStr(arg) THEN Returned(PathStr(arg.s)) ELSE Raised
    ELSE LET custom == Strip(EnvGet(env, <<"TOKEN_DIR">>))
         IN  IF custom # <<>> THEN Returned(PathStr(custom))
             ELSE IF is_dir(f, OldDir) /\ NewDir \notin DOMAIN f
                  THEN Returned(OldDir)
                  ELSE Returned(NewDir)

\* Path(x) of a value that is not a str raises TypeError
get_token_dir(env, f, arg) ==
    IF Truthy(arg)
    THEN IF IsStr(arg) THEN Returned(PathStr(arg.s)) ELSE Raised
    ELSE LET custom == Strip(EnvGet(env, <<"TOKEN_DIR">>))
         IN  IF custom # <<>> THEN Returned(PathStr(custom))
             ELSE IF is_dir(f, OldDir) /\ ~is_dir(f, NewDir)
                  THEN Returned(OldDir)
                  ELSE Returned(NewDir)

----------------------------------------------------------------------------
(* get_garmin_users                                                        *)

GARMIN == PyStr(<<"garmin">>)

\* the record appended for `entry`, found under (or applied to) `user`
UserRecord(env, user, entry) ==
    [name |-> Get(user, "name", PyStr(<<"Unknown">>)),
     email |-> resolve_env_ref(env, Get(entry, "email", PyStr(<<>>))),
     password |-> resolve_env_ref(env, Get(entry, "password", PyStr(<<>>))),
     token_dir |-> Get(entry, "token_dir", PyStr(<<>>))]

\* for entry in entries: if entry.get("type") == "garmin": append
RECURSIVE EntryRecords(_, _, _)
EntryRecords(env, user, entries) ==
    IF entries = <<>> THEN <<>>
    ELSE (IF Get(Head(entries), "type", PyNone) = GARMIN
          THEN <<UserRecord(env, user, Head(entries))>>
          ELSE <<>>) \o EntryRecords(env, user, Tail(entries))

\* for user in users: for entry in user.get("exporters", [])
RECURSIVE PerUserRecords(_, _)
PerUserRecords(env, users) ==
    IF users = <<>> THEN <<>>
    ELSE EntryRecords(env, Head(users), Get(Head(users), "exporters", <<>>))
         \o PerUserRecords(env, Tail(users))

\* for user in users: append (one global entry applied to every user)
RECURSIVE ApplyToUsers(_, _, _)
ApplyToUsers(env, entry, users) ==
    IF users = <<>> THEN <<>>
    ELSE <<UserRecord(env, Head(users), entry)>> \o ApplyToUsers(env, entry, Tail(users))

\* for entry in global_exporters: if garmin: for user in users
RECURSIVE GlobalRecords(_, _, _)
GlobalRecords(env, entries, users) ==
    IF entries = <<>> THEN <<>>
    ELSE (IF Get(Head(entries), "type", PyNone) = GARMIN
          THEN ApplyToUsers(env, Head(entries), users)
          ELSE <<>>) \o GlobalRecords(env, Tail(entries), users)

\* the loops of the fallback nested the other way round: user by user
RECURSIVE GlobalRecordsUserMajor(_, _, _)
GlobalRecordsUserMajor(env, entries, users) ==
    IF users = <<>> THEN <<>>
    ELSE EntryRecords(env, Head(users), entries)
         \o GlobalRecordsUserMajor(env, entries, Tail(users))

get_garmin_users_user_major(env, config) ==
    LET users == Get(config, "users", <<>>)
        global_exporters == Get(config, "global_exporters", <<>>)
        results == PerUserRecords(env, users)
    IN  IF results = <<>>
        THEN GlobalRecordsUserMajor(env, global_exporters, users)
        ELSE results

\* the fallback applied without the "if not results" test
get_garmin_users_always_global(env, config) ==
    LET users == Get(config, "users", <<>>)
        global_exporters == Get(config, "global_exporters", <<>>)
    IN  PerUserRecords(env, users) \o GlobalRecords(env, global_exporters, users)

get_garmin_users(env, config) ==
    LET users == Get(config, "users", <<>>)
        global_exporters == Get(config, "global_exporters", <<>>)
        results == PerUserRecords(env, users)
    IN  IF results = <<>>
        THEN GlobalRecords(env, global_exporters, users)
        ELSE results

----------------------------------------------------------------------------
(* Values the variables of the other runs keep while one function is       *)
(* exercised on its own                                                    *)

NoFs == <<>>
NoEnv == <<>>

BatchIdle ==
    /\ cli_token_dir = PyNone
    /\ garmin_users = <<>>
    /\ idx = 0
    /\ has_error = FALSE
    /\ email = <<>>
    /\ password = <<>>
    /\ token_dir = <<>>
    /\ result = <<>>
    /\ log = <<>>
    /\ exit_code = -1
    /\ crashed = FALSE
    /\ argv = <<>>

ErIdle == er_in = PyNone /\ er_out = PyNone /\ er_warn = <<>>
TdIdle == td_arg = PyNone /\ td_out = Raised
ExIdle == ex_config = <<>> /\ ex_out = <<>>

SeqUpTo(S, n) == UNION {[1..k -> S] : k \in 0..n}

RECURSIVE Flatten(_)
Flatten(ss) == IF ss = <<>> THEN <<>> ELSE Head(ss) \o Flatten(Tail(ss))

----------------------------------------------------------------------------
(* resolve_env_ref on its own                                              *)

MaxParts == 3

\* the pieces the argument strings are built from
Fragments ==
    { <<"$", "{", "E", "}">>, <<"$", "{", "U", "}">>, <<"$", "{", "E", "$", "}">>,
      <<"a">>, <<"$">>, <<"{">>, <<"}">>, <<"$", "{", "}">> }

ErInputs ==
    {PyStr(Flatten(ps)) : ps \in SeqUpTo(Fragments, MaxParts)}
        \cup {PyNone, PyInt(0), PyInt(7)}

\* E set, nothing set, E set to a text that itself holds a placeholder, E empty
ErEnvs ==
    { (<<"E">> :> <<"v">>),
      NoEnv,
      (<<"E">> :> <<"$", "{", "U", "}">>) @@ (<<"U">> :> <<"w">>),
      (<<"E">> :> <<>>) @@ (<<"E", "$">> :> <<"z">>) }

ErInit ==
    /\ pc = "er_call"
    /\ environ \in ErEnvs
    /\ fs = NoFs
    /\ er_in \in ErInputs
    /\ er_out = PyNone
    /\ er_warn = <<>>
    /\ BatchIdle /\ TdIdle /\ ExIdle

ErCall ==
    /\ pc = "er_call"
    /\ er_out' = resolve_env_ref(environ, er_in)
    /\ er_warn' = resolve_env_ref_warnings(environ, er_in)
    /\ pc' = "er_done"
    /\ UNCHANGED <<environ, fs, er_in, batch_vars, td_vars, ex_vars>>

ErNext == ErCall

SpecEnvRef == ErInit /\ [][ErNext]_vars

\* ${NAME}: "${", one or more characters other than "}", then "}"
IsPlaceholder(s, i, j) ==
    /\ i >= 1 /\ j <= Len(s) /\ j > i + 2
    /\ s[i] = "$" /\ s[i + 1] = "{" /\ s[j] = "}"
    /\ \A k \in (i + 2)..(j - 1) : s[k] # "}"

Placeholders(s) ==
    {p \in (1..Len(s)) \X (1..Len(s)) : IsPlaceholder(s, p[1], p[2])}

LeftmostPlaceholder(s) ==
    CHOOSE p \in Placeholders(s) : \A q \in Placeholders(s) : p[1] <= q[1]

\* C8: resolve_env_ref returns a non-string argument unchanged and a string
\* without placeholder unchanged; otherwise the result is the text before the
\* leftmost placeholder, then the variable's value when it is set and the
\* placeholder itself (with one warning naming it) when it is not, then the
\* resolution of the text after the placeholder.
C8_EnvRefResolved ==
    pc = "er_done" =>
        IF ~IsStr(er_in) THEN er_out = er_in /\ er_warn = <<>>
        ELSE IF Placeholders(er_in.s) = {} THEN er_out = er_in /\ er_warn = <<>>
        ELSE LET s == er_in.s
                 p == LeftmostPlaceholder(s)
                 name == SubSeq(s, p[1] + 2, p[2] - 1)
                 isset == name \in DOMAIN environ
                 rest == PyStr(SubSeq(s, p[2] + 1, Len(s)))
             IN  /\ IsStr(er_out)
                 /\ er_out.s = SubSeq(s, 1, p[1] - 1)
                                \o (IF isset THEN environ[name] ELSE SubSeq(s, p[1], p[2]))
                                \o resolve_env_ref(environ, rest).s
                 /\ er_warn = (IF isset THEN <<>> ELSE <<name>>)
                                \o resolve_env_ref_warnings(environ, rest)

\* a string with several placeholders, a set one replaced and an unset one kept
C8_Witness ==
    /\ pc = "er_done"
    /\ IsStr(er_in)
    /\ Cardinality(Placeholders(er_in.s)) >= 2
    /\ Len(er_warn) = 1
    /\ er_out # er_in

----------------------------------------------------------------------------
(* get_token_dir on its own                                                *)

Kinds == {"absent", "dir", "file"}

\* a file system holding p with the given kind
FsEntry(p, kind) == IF kind = "absent" THEN NoFs ELSE (p :> kind)

\* every state of the two default paths: absent, a directory, a plain file
TdFsStates == {FsEntry(NewDir, n) @@ FsEntry(OldDir, o) : n \in Kinds, o \in Kinds}

LegacyShorthand == <<"~", "/", ".garmin_renpho_tokens">>

\* token_dir arguments: none, empty, a path, white space, the legacy path, ints
TdArgs ==
    { PyNone, PyStr(<<>>), PyStr(<<"/", "c", "/">>), PyStr(<<" ">>),
      PyStr(LegacyShorthand), PyInt(0), PyInt(7) }

\* TOKEN_DIR: unset, empty, blank, a path, a padded path, the legacy path
TdEnvs ==
    { NoEnv,
      (<<"TOKEN_DIR">> :> <<>>),
      (<<"TOKEN_DIR">> :> <<" ", " ">>),
      (<<"TOKEN_DIR">> :> <<"/", "e">>),
      (<<"TOKEN_DIR">> :> <<" ", "~", "/", "e", "/", " ">>),
      (<<"TOKEN_DIR">> :> LegacyShorthand) }

TdInit ==
    /\ pc = "td_call"
    /\ environ \in TdEnvs
    /\ fs \in TdFsStates
    /\ td_arg \in TdArgs
    /\ td_out = Raised
    /\ BatchIdle /\ ErIdle /\ ExIdle

\* one call of get_token_dir(td_arg)
TdCall ==
    /\ pc = "td_call"
    /\ td_out' = get_token_dir(environ, fs, td_arg)
    /\ pc' = "td_done"
    /\ UNCHANGED <<environ, fs, td_arg, batch_vars, er_vars, ex_vars>>

\* between two calls the default directories are created, removed or renamed
TdFsChange ==
    /\ pc = "td_done"
    /\ fs' \in TdFsStates \ {fs}
    /\ pc' = "td_call"
    /\ UNCHANGED <<environ, td_arg, td_out, batch_vars, er_vars, ex_vars>>

TdNext == TdCall \/ TdFsChange

SpecTokenDir == TdInit /\ [][TdNext]_vars

\* neither an explicit override nor a non-blank TOKEN_DIR is supplied
TdNoOverride ==
    /\ ~Truthy(td_arg)
    /\ Strip(EnvGet(environ, <<"TOKEN_DIR">>)) = <<>>

\* C4 (as amended): with no override and no non-blank TOKEN_DIR, get_token_dir
\* returns the legacy path exactly when the legacy path is a directory and the
\* new default path is not a directory (it is absent or a plain file), and the
\* new default path otherwise; with an override or a non-blank TOKEN_DIR the
\* outcome is the same whatever the two default paths are.  Each call reads
\* the file system as it is at that call.
C4_LegacyIffNewNotDir ==
    pc = "td_done" =>
        IF TdNoOverride
        THEN /\ td_out = Returned(OldDir) <=>
                    (Get(fs, OldDir, "absent") = "dir" /\ Get(fs, NewDir, "absent") # "dir")
             /\ td_out # Returned(OldDir) => td_out = Returned(NewDir)
        ELSE \A f \in TdFsStates : td_out = get_token_dir(environ, f, td_arg)

\* the legacy path returned although the new default path exists (as a file)
C4_Witness ==
    /\ pc = "td_done"
    /\ TdNoOverride
    /\ Get(fs, NewDir, "absent") = "file"
    /\ td_out = Returned(OldDir)

\* C4 as stated: the legacy path is returned by the migration rule if and
\* only if the legacy directory exists, the new default path does not exist,
\* and neither an override nor a non-blank TOKEN_DIR is supplied (a supplied
\* override is returned as it is, whatever it names).
C4_AsStated ==
    pc = "td_done" =>
        IF TdNoOverride
        THEN td_out = Returned(OldDir) <=>
                 /\ Get(fs, OldDir, "absent") = "dir"
                 /\ Get(fs, NewDir, "absent") = "absent"
        ELSE td_out = get_token_dir(environ, NoFs, td_arg)

----------------------------------------------------------------------------
(* get_garmin_users on its own                                             *)

MaxUsers == 2
MaxExporters == 2
MaxGlobals == 2

ExporterTypes == {"garmin", "mqtt"}

\* an exporter entry of the given type; its fields name where it stands
Exporter(type, where) ==
    [type |-> PyStr(<<type>>),
     email |-> PyStr(<<"$", "{", "E", "}", "@">> \o where),
     password |-> PyStr(<<"pw">> \o where),
     token_dir |-> PyStr(<<"/">> \o where)]

\* the exporters list of types ts, standing at `where`
Exporters(ts, where) ==
    [k \in 1..Len(ts) |-> Exporter(ts[k], where \o <<ToString(k)>>)]

\* users[u] has the exporter types us[u]; global_exporters the types gs
RootConfig(us, gs) ==
    [users |-> [u \in 1..Len(us) |->
                    [name |-> PyStr(<<"user", ToString(u)>>),
                     exporters |-> Exporters(us[u], <<"u", ToString(u)>>)]],
     global_exporters |-> Exporters(gs, <<"g">>)]

ExConfigs ==
    {RootConfig(us, gs) :
        us \in SeqUpTo(SeqUpTo(ExporterTypes, MaxExporters), MaxUsers),
        gs \in SeqUpTo(ExporterTypes, MaxGlobals)}

ExEnvs == {NoEnv, (<<"E">> :> <<"me">>)}

ExInit ==
    /\ pc = "ex_call"
    /\ environ \in ExEnvs
    /\ fs = NoFs
    /\ ex_config \in ExConfigs
    /\ ex_out = <<>>
    /\ BatchIdle /\ ErIdle /\ TdIdle

ExCall ==
    /\ pc = "ex_call"
    /\ ex_out' = get_garmin_users(environ, ex_config)
    /\ pc' = "ex_done"
    /\ UNCHANGED <<environ, fs, ex_config, batch_vars, er_vars, td_vars>>

ExNext == ExCall

SpecExtract == ExInit /\ [][ExNext]_vars

IsGarmin(entry) == entry.type = GARMIN

\* <<u, k>>: exporter k of user u is a garmin exporter
PerUserGarmin(config) ==
    UNION {{<<u, k>> : k \in {j \in 1..Len(config.users[u].exporters) :
                                  IsGarmin(config.users[u].exporters[j])}} :
           u \in 1..Len(config.users)}

\* g: global exporter g is a garmin exporter
GlobalGarmin(config) ==
    {g \in 1..Len(config.global_exporters) : IsGarmin(config.global_exporters[g])}

\* C2 (as amended): when no user has a garmin exporter of their own, every
\* global garmin exporter is applied to every declared user exactly once: the
\* result holds one record per pair of a global garmin exporter and a user,
\* exporter by exporter in their order, and within one exporter the users in
\* declaration order.
C2_GlobalPerExporterThenUser ==
    (pc = "ex_done" /\ PerUserGarmin(ex_config) = {}) =>
        LET users == ex_config.users
            gg == GlobalGarmin(ex_config)
            rank(g) == Cardinality({h \in gg : h < g})
        IN  /\ Len(ex_out) = Cardinality(gg) * Len(users)
            /\ \A g \in gg, u \in 1..Len(users) :
                   ex_out[rank(g) * Len(users) + u] =
                       UserRecord(environ, users[u], ex_config.global_exporters[g])

\* two users and two global garmin exporters, none per user
C2_Witness ==
    /\ pc = "ex_done"
    /\ PerUserGarmin(ex_config) = {}
    /\ Len(ex_config.users) >= 2
    /\ Cardinality(GlobalGarmin(ex_config)) >= 2
    /\ Len(ex_out) = 2 * Len(ex_config.users)

\* C2 as stated: with no per-user garmin exporter and global garmin
\* exporters present, the result holds exactly one record per declared user,
\* in user-declaration order.
C2_AsStated ==
    (pc = "ex_done" /\ PerUserGarmin(ex_config) = {} /\ GlobalGarmin(ex_config) # {}) =>
        /\ Len(ex_out) = Len(ex_config.users)
        /\ \A u \in 1..Len(ex_config.users) :
               u <= Len(ex_out) /\ ex_out[u].name = ex_config.users[u].name

\* C3: when some user has a garmin exporter of their own, the result is
\* exactly the per-user garmin entries, by user and then by exporter; no
\* record comes from global_exporters and a user without garmin exporter has
\* no record.
C3_PerUserOnly ==
    (pc = "ex_done" /\ PerUserGarmin(ex_config) # {}) =>
        LET users == ex_config.users
            pg == PerUserGarmin(ex_config)
            before(q, p) == q[1] < p[1] \/ (q[1] = p[1] /\ q[2] < p[2])
            rank(p) == Cardinality({q \in pg : before(q, p)})
        IN  /\ Len(ex_out) = Cardinality(pg)
            /\ \A p \in pg :
                   ex_out[rank(p) + 1] =
                       UserRecord(environ, users[p[1]], users[p[1]].exporters[p[2]])
            /\ \A k \in 1..Len(ex_out), g \in GlobalGarmin(ex_config) :
                   ex_out[k].token_dir # ex_config.global_exporters[g].token_dir
            /\ \A u \in 1..Len(users) :
                   (\A p \in pg : p[1] # u) =>
                       \A k \in 1..Len(ex_out) : ex_out[k].name # users[u].name

\* a user with garmin exporters, a user with none, and a global garmin exporter
C3_Witness ==
    /\ pc = "ex_done"
    /\ GlobalGarmin(ex_config) # {}
    /\ \E u, w \in 1..Len(ex_config.users) :
           /\ \E p \in PerUserGarmin(ex_config) : p[1] = u
           /\ \A p \in PerUserGarmin(ex_config) : p[1] # w
    /\ Len(ex_out) >= 1

----------------------------------------------------------------------------
(* main, run_legacy, run_from_config, authenticate                         *)

Ev(i, e, ok) == [i |-> i, ev |-> e, ok |-> ok]

\* (value or "").strip(): AttributeError when the value is a truthy non-str
StripCred(v) ==
    LET x == PyOr(v, PyStr(<<>>))
    IN  IF IsStr(x) THEN Returned(Strip(x.s)) ELSE Raised

\* [u for u in garmin_users if u["name"] == target_user]
FilterUsers(users, target_user) ==
    SelectSeq(users, LAMBDA u : u.name = target_user)

Fatal(msg) == [fatal |-> TRUE, crash |-> FALSE, msg |-> msg, users |-> <<>>]
Proceed(users) == [fatal |-> FALSE, crash |-> FALSE, msg |-> "", users |-> users]

\* the filter applied without the exit on an empty result
run_from_config_setup_no_filter_exit(env, load, target_user) ==
    IF load.kind \in {"no_yaml", "not_found", "yaml_error"} THEN Fatal(load.kind)
    ELSE IF load.kind = "empty"
    THEN [fatal |-> FALSE, crash |-> TRUE, msg |-> "", users |-> <<>>]
    ELSE LET all == get_garmin_users(env, load.config)
         IN  IF all = <<>> THEN Fatal("no_exporters")
             ELSE IF Truthy(target_user)
             THEN Proceed(FilterUsers(all, target_user))
             ELSE Proceed(all)

\* run_from_config up to its loop: load_config (sys.exit(1) without PyYAML, on
\* a missing file, on a YAML error; an empty file loads as None and
\* config.get raises), get_garmin_users, the --user filter
run_from_config_setup(env, load, target_user) ==
    IF load.kind \in {"no_yaml", "not_found", "yaml_error"} THEN Fatal(load.kind)
    ELSE IF load.kind = "empty"
    THEN [fatal |-> FALSE, crash |-> TRUE, msg |-> "", users |-> <<>>]
    ELSE LET all == get_garmin_users(env, load.config)
         IN  IF all = <<>> THEN Fatal("no_exporters")
             ELSE IF Truthy(target_user)
             THEN LET some == FilterUsers(all, target_user)
                  IN  IF some = <<>> THEN Fatal("user_not_found") ELSE Proceed(some)
             ELSE Proceed(all)

\* the record's directory taking precedence over the command line's
TokenDirArgUserFirst(cli, user) ==
    PyOr(PyOr(Get(user, "token_dir", PyNone), cli), PyNone)

\* cli_token_dir or user.get("token_dir") or None
TokenDirArg(cli, user) ==
    PyOr(PyOr(cli, Get(user, "token_dir", PyNone)), PyNone)

\* authenticate with the directory written before it is created
authenticate_step_dump_first(site, ok) ==
    IF ~ok THEN [next |-> "return", ret |-> FALSE]
    ELSE CASE site = "login" -> [next |-> "dump", ret |-> FALSE]
           [] site = "dump" -> [next |-> "makedirs", ret |-> FALSE]
           [] OTHER -> [next |-> "return", ret |-> TRUE]

\* the body of authenticate's try: login, makedirs, dump, return True; an
\* exception of any of them is caught and False returned
authenticate_step(site, ok) ==
    IF ~ok THEN [next |-> "return", ret |-> FALSE]
    ELSE CASE site = "login" -> [next |-> "makedirs", ret |-> FALSE]
           [] site = "makedirs" -> [next |-> "dump", ret |-> FALSE]
           [] OTHER -> [next |-> "return", ret |-> TRUE]

\* what follows authenticate's return: in run_legacy the exit, in
\* run_from_config the next record
AuthDone(ret, events) ==
    IF idx = 0
    THEN /\ pc' = "done"
         /\ exit_code' = (IF ret THEN 0 ELSE 1)
         /\ log' = log \o events \o (IF ret THEN <<Ev(0, "all_done", TRUE)>> ELSE <<>>)
         /\ UNCHANGED <<idx, has_error, result>>
    ELSE /\ pc' = "loop"
         /\ idx' = idx + 1
         /\ has_error' = (has_error \/ ~ret)
         /\ result' = [result EXCEPT ![idx] = IF ret THEN "ok" ELSE "fail"]
         /\ log' = log \o events
         /\ UNCHANGED exit_code

\* one statement of authenticate's try block with its outcome
AuthStep(site, ok, events) ==
    LET s == authenticate_step(site, ok)
    IN  IF s.next = "return"
        THEN AuthDone(s.ret, events \o <<Ev(idx, IF s.ret THEN "saved" ELSE "failed", s.ret)>>)
        ELSE /\ pc' = s.next
             /\ log' = log \o events
             /\ UNCHANGED <<idx, has_error, result, exit_code>>

\* the run ends by sys.exit(code) or by an uncaught exception (status 1)
Exit(code, events, uncaught) ==
    /\ pc' = "done"
    /\ exit_code' = code
    /\ crashed' = uncaught
    /\ log' = log \o events

----------------------------------------------------------------------------
(* The runs checked: configurations, command lines, environments           *)

MaxBatchUsers == 2

Entry(type, em, pw) == [type |-> PyStr(<<type>>), email |-> em, password |-> pw]

UserPool ==
    { [name |-> PyStr(<<"alice">>),
       exporters |-> <<Entry("garmin", PyStr(<<"$", "{", "E", "}", "@">>), PyStr(<<"pw">>))>>],
      [name |-> PyStr(<<"bob">>),
       exporters |-> << Entry("mqtt", PyStr(<<"m">>), PyStr(<<"m">>)),
                        Entry("garmin", PyStr(<<"bob">>), PyStr(<<" ", "pw", " ">>))
                            @@ [token_dir |-> PyStr(<<"~", "/", "t", "/">>)] >>],
      [name |-> PyStr(<<"bob">>),
       exporters |-> <<Entry("garmin", PyNone, PyStr(<<"pw">>))
                            @@ [token_dir |-> PyStr(<<>>)]>>],
      [name |-> PyStr(<<"alice">>),
       exporters |-> <<Entry("garmin", PyStr(<<"al">>), PyInt(12345))>>],
      [name |-> PyStr(<<"carol">>),
       exporters |-> <<Entry("mqtt", PyStr(<<"m">>), PyStr(<<"m">>))>>],
      [exporters |-> <<Entry("garmin", PyStr(<<"x">>), PyStr(<<" ">>)),
                       Entry("garmin", PyStr(<<"x">>), PyStr(<<"y">>))
                            @@ [token_dir |-> PyInt(7)]>>] }

GlobalPool ==
    { <<>>,
      <<Entry("garmin", PyStr(<<"g">>), PyStr(<<"gpw">>))
            @@ [token_dir |-> PyStr(<<"/", "g">>)]>> }

Loads ==
    {[kind |-> k] : k \in {"no_yaml", "not_found", "yaml_error", "empty"}}
        \cup {[kind |-> "ok", config |-> [users |-> us, global_exporters |-> gs]] :
                 us \in SeqUpTo(UserPool, MaxBatchUsers), gs \in GlobalPool}
        \cup {[kind |-> "ok", config |-> [global_exporters |-> gs]] : gs \in GlobalPool}

TargetUsers == {PyNone, PyStr(<<"alice">>), PyStr(<<"zed">>)}

CliTokenDirs == {PyNone, PyStr(<<>>), PyStr(<<"~", "/", "c", "/">>)}

MainEnvs ==
    { NoEnv,
      (<<"GARMIN_EMAIL">> :> <<"me">>) @@ (<<"GARMIN_PASSWORD">> :> <<" ", "pw">>)
          @@ (<<"E">> :> <<"e">>) @@ (<<"TOKEN_DIR">> :> <<" ">>),
      (<<"GARMIN_EMAIL">> :> <<"me">>) @@ (<<"GARMIN_PASSWORD">> :> <<" ">>)
          @@ (<<"TOKEN_DIR">> :> <<" ", "/", "e", "/">>) }

MainFs ==
    { NoFs,
      (OldDir :> "dir") @@ (NewDir :> "file") @@ (Home \o <<"/", "c">> :> "file") }

Init ==
    /\ pc = "main"
    /\ environ \in MainEnvs
    /\ fs \in MainFs
    /\ BatchIdle /\ ErIdle /\ TdIdle /\ ExIdle

\* main without --from-config: run_legacy up to its call of get_token_dir
MainLegacy ==
    /\ pc = "main"
    /\ \E cli \in CliTokenDirs :
        LET em == Strip(EnvGet(environ, <<"GARMIN_EMAIL">>))
            pw == Strip(EnvGet(environ, <<"GARMIN_PASSWORD">>))
        IN  /\ argv' = [from_config |-> FALSE, token_dir |-> cli]
            /\ cli_token_dir' = cli
            /\ IF em = <<>> \/ pw = <<>>
               THEN /\ Exit(1, <<Ev(0, "legacy_missing", FALSE)>>, FALSE)
                    /\ UNCHANGED <<email, password>>
               ELSE /\ pc' = "resolve"
                    /\ email' = em
                    /\ password' = pw
                    /\ UNCHANGED <<log, exit_code, crashed>>
    /\ UNCHANGED <<environ, fs, garmin_users, idx, has_error, token_dir, result,
                   er_vars, td_vars, ex_vars>>

\* main with --from-config: run_from_config up to its loop
MainFromConfig ==
    /\ pc = "main"
    /\ \E load \in Loads, target_user \in TargetUsers, cli \in CliTokenDirs :
        LET s == run_from_config_setup(environ, load, target_user)
        IN  /\ argv' = [from_config |-> TRUE, load |-> load, user |-> target_user,
                        token_dir |-> cli]
            /\ cli_token_dir' = cli
            /\ IF s.fatal \/ s.crash
               THEN /\ Exit(1, IF s.fatal THEN <<Ev(0, s.msg, FALSE)>> ELSE <<>>, s.crash)
                    /\ UNCHANGED <<garmin_users, idx, result>>
               ELSE /\ pc' = "loop"
                    /\ garmin_users' = s.users
                    /\ idx' = 1
                    /\ result' = [i \in 1..Len(s.users) |-> "none"]
                    /\ UNCHANGED <<log, exit_code, crashed>>
    /\ UNCHANGED <<environ, fs, has_error, email, password, token_dir,
                   er_vars, td_vars, ex_vars>>

\* one pass of the for loop up to the blank-credentials test
LoopBody ==
    /\ pc = "loop"
    /\ idx <= Len(garmin_users)
    /\ LET user == garmin_users[idx]
           em == StripCred(Get(user, "email", PyNone))
           pw == StripCred(Get(user, "password", PyNone))
       IN  IF em.raised \/ pw.raised
           THEN /\ Exit(1, <<Ev(idx, "banner", TRUE)>>, TRUE)
                /\ UNCHANGED <<idx, has_error, email, password, result>>
           ELSE IF em.v = <<>> \/ pw.v = <<>>
           THEN /\ log' = log \o <<Ev(idx, "banner", TRUE), Ev(idx, "missing", FALSE)>>
                /\ has_error' = TRUE
                /\ result' = [result EXCEPT ![idx] = "fail"]
                /\ idx' = idx + 1
                /\ UNCHANGED <<pc, email, password, exit_code, crashed>>
           ELSE /\ log' = log \o <<Ev(idx, "banner", TRUE)>>
                /\ pc' = "resolve"
                /\ email' = em.v
                /\ password' = pw.v
                /\ UNCHANGED <<idx, has_error, result, exit_code, crashed>>
    /\ UNCHANGED <<environ, fs, cli_token_dir, garmin_users, token_dir, argv,
                   er_vars, td_vars, ex_vars>>

\* after the loop: sys.exit(1) on has_error, else the final message
LoopEnd ==
    /\ pc = "loop"
    /\ idx > Len(garmin_users)
    /\ IF has_error
       THEN Exit(1, <<>>, FALSE)
       ELSE Exit(0, <<Ev(0, "all_done", TRUE)>>, FALSE)
    /\ UNCHANGED <<environ, fs, cli_token_dir, garmin_users, idx, has_error, email,
                   password, token_dir, result, argv, er_vars, td_vars, ex_vars>>

\* token_dir = get_token_dir(...), of run_legacy (idx = 0) or of the loop
ResolveDir ==
    /\ pc = "resolve"
    /\ LET arg == IF idx = 0 THEN cli_token_dir
                  ELSE TokenDirArg(cli_token_dir, garmin_users[idx])
           d == get_token_dir(environ, fs, arg)
       IN  IF d.raised
           THEN /\ Exit(1, <<>>, TRUE)
                /\ UNCHANGED token_dir
           ELSE /\ pc' = "login"
                /\ token_dir' = d.v
                /\ log' = log \o <<Ev(idx, "resolved", TRUE)>>
                /\ UNCHANGED <<exit_code, crashed>>
    /\ UNCHANGED <<environ, fs, cli_token_dir, garmin_users, idx, has_error, email,
                   password, result, argv, er_vars, td_vars, ex_vars>>

\* authenticate: Garmin(email, password), the user agent, garmin.login()
Login ==
    /\ pc = "login"
    /\ \E ok \in BOOLEAN :
        AuthStep("login", ok, <<Ev(idx, "authenticating", TRUE), Ev(idx, "login", ok)>>)
    /\ UNCHANGED <<environ, fs, cli_token_dir, garmin_users, email, password,
                   token_dir, crashed, argv, er_vars, td_vars, ex_vars>>

\* os.makedirs(token_dir, exist_ok=True): nothing to do on a directory,
\* FileExistsError on a plain file, else the directory is created or the
\* creation fails (permissions, a parent that is a file)
Makedirs ==
    /\ pc = "makedirs"
    /\ \E ok \in BOOLEAN :
        /\ Get(fs, token_dir, "absent") = "dir" => ok
        /\ Get(fs, token_dir, "absent") = "file" => ~ok
        /\ fs' = IF ok THEN (token_dir :> "dir") @@ fs ELSE fs
        /\ AuthStep("makedirs", ok, <<Ev(idx, "makedirs", ok)>>)
    /\ UNCHANGED <<environ, cli_token_dir, garmin_users, email, password,
                   token_dir, crashed, argv, er_vars, td_vars, ex_vars>>

\* garmin.garth.dump(token_dir): the session is written, or the write fails
Dump ==
    /\ pc = "dump"
    /\ \E ok \in BOOLEAN :
        AuthStep("dump", ok, <<Ev(idx, "dump", ok)>>)
    /\ UNCHANGED <<environ, fs, cli_token_dir, garmin_users, email, password,
                   token_dir, crashed, argv, er_vars, td_vars, ex_vars>>

Next ==
    \/ MainLegacy
    \/ MainFromConfig
    \/ LoopBody
    \/ LoopEnd
    \/ ResolveDir
    \/ Login
    \/ Makedirs
    \/ Dump

Spec == Init /\ [][Next]_vars

----------------------------------------------------------------------------
(* Properties of the runs                                                  *)

Records == 1..Len(garmin_users)

\* positions of the log where event e of record i stands
At(i, e) == {k \in 1..Len(log) : log[k].i = i /\ log[k].ev = e}

\* the batch loop was entered and the process has ended
BatchEnded == pc = "done" /\ idx >= 1

\* a value that is empty or white space only (None and 0 count as empty)
BlankValue(v) == ~Truthy(v) \/ (IsStr(v) /\ Strip(v.s) = <<>>)

BlankRecord(u) ==
    BlankValue(Get(u, "email", PyNone)) \/ BlankValue(Get(u, "password", PyNone))

\* the state of record i in  Pending -> Resolving-Directory -> Authenticating
\* -> {Persisted | Failed}
Phase(i) ==
    IF result[i] = "ok" THEN "Persisted"
    ELSE IF result[i] = "fail" THEN "Failed"
    ELSE IF i = idx /\ pc = "resolve" THEN "Resolving-Directory"
    ELSE IF i = idx /\ pc \in {"login", "makedirs", "dump"} THEN "Authenticating"
    ELSE "Pending"

\* C1: when a batch run has ended, every record was attempted (its banner
\* printed) and has an outcome, the banners stand in record order, the exit
\* status is 1 if some record failed, and the status is 0 and the final
\* message printed only if every record succeeded.
C1_AsStated ==
    BatchEnded =>
        /\ \A i \in Records : At(i, "banner") # {} /\ result[i] # "none"
        /\ \A i, j \in Records :
               (i < j /\ At(i, "banner") # {} /\ At(j, "banner") # {}) =>
                   \A k \in At(i, "banner"), m \in At(j, "banner") : k < m
        /\ (\E i \in Records : result[i] = "fail") => exit_code = 1
        /\ (exit_code = 0 \/ At(0, "all_done") # {}) =>
               \A i \in Records : result[i] = "ok"

\* C5: for a record whose email or password is blank no login is ever
\* attempted, and when the run has ended the record has failed, its error was
\* reported and the exit status is 1.
C5_AsStated ==
    \A i \in Records :
        BlankRecord(garmin_users[i]) =>
            /\ At(i, "login") = {}
            /\ pc = "done" =>
                   /\ At(i, "missing") # {}
                   /\ result[i] = "fail"
                   /\ exit_code = 1

\* C9: a record with an outcome has passed through Resolving-Directory and
\* then Authenticating; at most one record is in Resolving-Directory or
\* Authenticating; when the batch run has ended every record is Persisted or
\* Failed.
C9_AsStated ==
    /\ BatchEnded =>
           \A i \in Records : Phase(i) \in {"Persisted", "Failed"}
    /\ Cardinality({i \in Records :
                        Phase(i) \in {"Resolving-Directory", "Authenticating"}}) <= 1
    /\ BatchEnded =>
           \A i \in Records :
               Phase(i) \in {"Persisted", "Failed"} =>
                   \E k \in At(i, "resolved"), m \in At(i, "authenticating") : k < m

\* the run was started with a configuration error: legacy mode with a blank
\* GARMIN_EMAIL or GARMIN_PASSWORD; batch mode without PyYAML, with a missing,
\* unparsable or empty file, with no garmin record, or with a --user that no
\* record carries
ConfigError ==
    /\ argv # <<>>
    /\ IF argv.from_config
       THEN \/ argv.load.kind # "ok"
            \/ LET all == get_garmin_users(environ, argv.load.config)
               IN  \/ all = <<>>
                   \/ /\ Truthy(argv.user)
                      /\ \A k \in 1..Len(all) : all[k].name # argv.user
       ELSE \/ Strip(EnvGet(environ, <<"GARMIN_EMAIL">>)) = <<>>
            \/ Strip(EnvGet(environ, <<"GARMIN_PASSWORD">>)) = <<>>

\* C6: a run started with a configuration error has ended with a non-zero
\* status, and neither get_token_dir nor authenticate (login, makedirs, dump)
\* was invoked for anyone.
C6_ConfigErrorFatal ==
    ConfigError =>
        /\ pc = "done"
        /\ exit_code # 0 /\ exit_code # -1
        /\ \A k \in 1..Len(log) :
               log[k].ev \notin {"resolved", "authenticating", "login", "makedirs",
                                 "dump", "saved", "failed", "all_done"}

\* --user names nobody although the configuration holds garmin records
C6_Witness ==
    /\ ConfigError
    /\ argv.from_config
    /\ argv.load.kind = "ok"
    /\ get_garmin_users(environ, argv.load.config) # <<>>
    /\ pc = "done"

\* C7: the directory a batch record authenticates with is the --token-dir
\* value when one is given, else the record's token_dir when it is not empty,
\* else TOKEN_DIR when it is not blank, else the default (the legacy path
\* under the migration rule, else the new path), each expanded as a path.
C7_TokenDirPrecedence ==
    (pc = "login" /\ idx >= 1) =>
        LET own == Get(garmin_users[idx], "token_dir", PyNone)
            custom == Strip(EnvGet(environ, <<"TOKEN_DIR">>))
        IN  token_dir =
                IF Truthy(cli_token_dir) THEN PathStr(cli_token_dir.s)
                ELSE IF Truthy(own) THEN PathStr(own.s)
                ELSE IF custom # <<>> THEN PathStr(custom)
                ELSE IF Get(fs, OldDir, "absent") = "dir" /\ Get(fs, NewDir, "absent") # "dir"
                     THEN OldDir
                     ELSE NewDir

\* the second record of a batch, with a directory of its own, uses --token-dir
C7_Witness ==
    /\ pc = "login"
    /\ idx = 2
    /\ Truthy(cli_token_dir)
    /\ Truthy(Get(garmin_users[idx], "token_dir", PyNone))
    /\ At(1, "login") # {}
    /\ token_dir = Home \o <<"/", "c">>

\* C10: within authenticate the order is login, makedirs, dump: makedirs is
\* called only after a successful login and dump only after a successful
\* makedirs, with the directory existing; after a failed login neither is
\* called; a failure of any of the three is followed by the failure report
\* and a failed outcome (exit status 1 in legacy mode), never by an uncaught
\* exception.
C10_AuthenticateOrder ==
    /\ pc = "dump" => is_dir(fs, token_dir)
    /\ \A k \in 1..Len(log) :
        LET e == log[k]
        IN  /\ e.ev = "makedirs" => k > 1 /\ log[k - 1] = Ev(e.i, "login", TRUE)
            /\ e.ev = "dump" => k > 1 /\ log[k - 1] = Ev(e.i, "makedirs", TRUE)
            /\ e.ev = "saved" => k > 1 /\ log[k - 1] = Ev(e.i, "dump", TRUE)
            /\ (e.ev \in {"login", "makedirs", "dump"} /\ ~e.ok) =>
                   /\ k < Len(log) /\ log[k + 1] = Ev(e.i, "failed", FALSE)
                   /\ \A m \in (k + 1)..Len(log) :
                          log[m].i = e.i => log[m].ev \notin {"makedirs", "dump", "saved"}
            /\ e.ev = "failed" =>
                   /\ k > 1 /\ log[k - 1].i = e.i /\ ~log[k - 1].ok
                   /\ IF e.i = 0 THEN pc = "done" /\ exit_code = 1
                      ELSE result[e.i] = "fail" /\ has_error
    /\ crashed => (log = <<>> \/ log[Len(log)].ev = "banner")

\* the first record's login and makedirs succeeded, its dump failed, and the
\* batch went on to the second record
C10_Witness ==
    /\ At(1, "dump") # {}
    /\ At(1, "failed") # {}
    /\ is_dir(fs, token_dir)
    /\ idx = 2
    /\ pc = "loop"

====
